---- MODULE Spec2Model ----
(***************************************************************************)
(* Session / streaming tool-call orchestrator of the Figma agent backend:  *)
(* the session store (services/session.ts), the streaming generation       *)
(* client (generateChatResponseStream) and the WebSocket gateway with its  *)
(* two frame handlers (services/websocket.ts).                             *)
(*                                                                         *)
(* Encoding.  Session ids, connection ids and response ids are the         *)
(* positive integers in the order the program generates them (randomUUID,  *)
(* uuidv4, the upstream's response id).  A string is the sequence of its   *)
(* atoms, so concatenation is \o and "" is << >>.  A call id is the pair   *)
(* <<invocation, item>> of the upstream response item that carries it.     *)
(* Time is counted in units of 12 hours.                                   *)
(***************************************************************************)
EXTENDS Integers, Sequences, FiniteSets, TLC

\* ---------------------------------------------------------------- bounds
\* inbound frames the gateway handles in one behaviour
MaxFrames == 2
\* connections accepted or rejected in one behaviour
MaxClients == 1
\* longest upstream event sequence of the exhaustive generation-client check
MaxStreamLen == 3
\* the clock's last value, in units of 12 hours
MaxTime == 3
\* connections opened after an earlier one was closed
MaxReconnects == 1
\* heartbeat ticks one connection lives through
MaxHeartbeats == 3

\* ------------------------------------------------------------- constants
\* null / undefined identifier
NullId == 0
\* the empty string as an identifier (responseId before response.created)
EmptyId == -1
\* a session id the store never generated
UnknownSession == -2
\* 24 hours, in units of 12 hours
SESSION_TTL == 2

\* the longest message string the handler parses
MAX_MESSAGE_LENGTH == 10000

\* null text (finalText when nothing was generated)
NullText == <<"<null>">>
\* a call id the upstream never issued
WrongCallId == <<0, 0>>
NoCallId == << >>

VARIABLES
    sessionObjs,  \* every SessionData object allocated so far, by generated id
    sessions,     \* the keys of the Map `sessions`
    now,          \* Date.now()
    conn,         \* every WebSocketClient object created so far, by clientId
    clients,      \* the keys of the Map `clients`
    sent,         \* per connection, the frames handed to client.send, in order
    inv,          \* the generateChatResponseStream invocations, in start order
    nodeEnv,      \* process.env.NODE_ENV
    frames        \* number of inbound frames handled so far

vars == <<sessionObjs, sessions, now, conn, clients, sent, inv, nodeEnv, frames>>

\* ---------------------------------------------------------------- strings
IsWhitespace(ch) == ch = " "

RECURSIVE TrimStart(_)
TrimStart(s) ==
    IF s # << >> /\ IsWhitespace(Head(s)) THEN TrimStart(Tail(s)) ELSE s

RECURSIVE TrimEnd(_)
TrimEnd(s) ==
    IF s # << >> /\ IsWhitespace(s[Len(s)])
    THEN TrimEnd(SubSeq(s, 1, Len(s) - 1))
    ELSE s

Trim(s) == TrimEnd(TrimStart(s))

Last(s) == s[Len(s)]

\* ------------------------------------------------------- history messages
NoToolCalls == << >>

UserMessage(text) ==
    [type |-> "message", role |-> "user", content |-> text,
     tool_calls |-> NoToolCalls, call_id |-> NoCallId, output |-> << >>]

AssistantMessage(text) ==
    [type |-> "message", role |-> "assistant", content |-> text,
     tool_calls |-> NoToolCalls, call_id |-> NoCallId, output |-> << >>]

AssistantMessageWithCall(functionCall) ==
    [type |-> "message", role |-> "assistant", content |-> << >>,
     tool_calls |-> <<[id |-> functionCall.call_id,
                       name |-> functionCall.name,
                       arguments |-> functionCall.arguments]>>,
     call_id |-> NoCallId, output |-> << >>]

FunctionCallOutputMessage(call_id, output) ==
    [type |-> "function_call_output", role |-> "none", content |-> << >>,
     tool_calls |-> NoToolCalls, call_id |-> call_id, output |-> output]

SYSTEM_INSTRUCTION ==
    [type |-> "message", role |-> "developer", content |-> <<"instruction">>,
     tool_calls |-> NoToolCalls, call_id |-> NoCallId, output |-> << >>]

isBackendChatMessage(msg) == msg.type = "message"

isFunctionCallOutputMessage(msg) == msg.type = "function_call_output"

ensureSystemInstruction(messages) ==
    IF messages # << >> /\ messages[1].role = "developer"
    THEN messages
    ELSE <<SYSTEM_INSTRUCTION>> \o messages

\* ---------------------------------------------------------- session store
\* The operators below take and return a world W, a record of the program's
\* mutable objects: objs and keys (the session store), conn, clients, sent and
\* inv.  An object whose key was deleted stays in objs because a handler's
\* closure may still hold it.
NewSessionData(t) ==
    [previousResponseId |-> NullId, chatHistory |-> << >>, lastAccessed |-> t]

Falsy(id) == id = NullId \/ id = EmptyId

Expired(W, id, t) == t - W.objs[id].lastAccessed > SESSION_TTL

\* a variant of getOrCreateSession that never looks the id up
getOrCreateSessionAnew(W, requestedSessionId, t) ==
    [W |-> [W EXCEPT !.objs = Append(@, NewSessionData(t)),
                     !.keys = @ \cup {Len(W.objs) + 1}],
     sessionId |-> Len(W.objs) + 1,
     isNewSession |-> TRUE]

\* a variant of getOrCreateSession that returns a stored session whatever
\* its age
getOrCreateSessionIgnoringTTL(W, requestedSessionId, t) ==
    IF requestedSessionId \in W.keys
    THEN [W |-> [W EXCEPT !.objs[requestedSessionId].lastAccessed = t],
          sessionId |-> requestedSessionId,
          isNewSession |-> FALSE]
    ELSE [W |-> [W EXCEPT !.objs = Append(@, NewSessionData(t)),
                          !.keys = @ \cup {Len(W.objs) + 1}],
          sessionId |-> Len(W.objs) + 1,
          isNewSession |-> TRUE]

\* a variant of getOrCreateSession that creates the new session under the id
\* asked for when that id was generated earlier and is no longer in the table
getOrCreateSessionAdopting(W, requestedSessionId, t) ==
    LET known == ~Falsy(requestedSessionId) /\ requestedSessionId \in W.keys
    IN  IF known /\ ~Expired(W, requestedSessionId, t)
        THEN [W |-> [W EXCEPT !.objs[requestedSessionId].lastAccessed = t],
              sessionId |-> requestedSessionId,
              isNewSession |-> FALSE]
        ELSE IF ~known /\ requestedSessionId \in DOMAIN W.objs
        THEN [W |-> [W EXCEPT !.objs[requestedSessionId] = NewSessionData(t),
                              !.keys = @ \cup {requestedSessionId}],
              sessionId |-> requestedSessionId,
              isNewSession |-> TRUE]
        ELSE LET kept == IF known THEN W.keys \ {requestedSessionId} ELSE W.keys
                 fresh == Len(W.objs) + 1
             IN  [W |-> [W EXCEPT !.objs = Append(@, NewSessionData(t)),
                                  !.keys = kept \cup {fresh}],
                  sessionId |-> fresh,
                  isNewSession |-> TRUE]

getOrCreateSession(W, requestedSessionId, t) ==
    LET known == ~Falsy(requestedSessionId) /\ requestedSessionId \in W.keys
    IN  IF known /\ ~Expired(W, requestedSessionId, t)
        THEN [W |-> [W EXCEPT !.objs[requestedSessionId].lastAccessed = t],
              sessionId |-> requestedSessionId,
              isNewSession |-> FALSE]
        ELSE LET kept == IF known THEN W.keys \ {requestedSessionId} ELSE W.keys
                 fresh == Len(W.objs) + 1
             IN  [W |-> [W EXCEPT !.objs = Append(@, NewSessionData(t)),
                                  !.keys = kept \cup {fresh}],
                  sessionId |-> fresh,
                  isNewSession |-> TRUE]

\* a variant of isValidSession that only looks the id up
isValidSessionIgnoringTTL(W, sessionId, t) == sessionId \in W.keys

isValidSession(W, sessionId, t) ==
    sessionId \in W.keys /\ ~Expired(W, sessionId, t)

\* a variant of updateSessionData that does not look the id up in the table
updateSessionDataUnchecked(W, sessionId, newPreviousResponseId, messageToAdd, t) ==
    [W EXCEPT !.objs[sessionId] =
        [previousResponseId |-> newPreviousResponseId,
         chatHistory |-> Append(@.chatHistory, messageToAdd),
         lastAccessed |-> t]]

\* a variant of isValidSession's effect that deletes the session it finds
\* expired and refreshes the one it finds valid
isValidSessionTouching(W, sessionId, t) ==
    IF sessionId \notin W.keys
    THEN W
    ELSE IF Expired(W, sessionId, t)
    THEN [W EXCEPT !.keys = @ \ {sessionId}]
    ELSE [W EXCEPT !.objs[sessionId].lastAccessed = t]

\* the world after a call of isValidSession: its body assigns nothing
isValidSessionEffect(W, sessionId, t) == W

updateSessionData(W, sessionId, newPreviousResponseId, messageToAdd, t) ==
    IF sessionId \in W.keys
    THEN [W EXCEPT !.objs[sessionId] =
            [previousResponseId |-> newPreviousResponseId,
             chatHistory |-> Append(@.chatHistory, messageToAdd),
             lastAccessed |-> t]]
    ELSE W

\* a variant of addMessageToHistory that appends to the session object even
\* when its id is no longer in the table
addMessageToHistoryUnchecked(W, sessionId, messageToAdd, t) ==
    IF sessionId \in DOMAIN W.objs
    THEN [W EXCEPT !.objs[sessionId] =
            [@ EXCEPT !.chatHistory = Append(@, messageToAdd),
                      !.lastAccessed = t]]
    ELSE W

addMessageToHistory(W, sessionId, messageToAdd, t) ==
    IF sessionId \in W.keys
    THEN [W EXCEPT !.objs[sessionId] =
            [@ EXCEPT !.chatHistory = Append(@, messageToAdd),
                      !.lastAccessed = t]]
    ELSE W

\* a variant of the sweep that removes a session as soon as it is as old as
\* the TTL
sessionCleanupEager(W, t) ==
    [W EXCEPT !.keys = {sessionId \in @ :
                           t - W.objs[sessionId].lastAccessed < SESSION_TTL}]

\* the callback of setupSessionCleanup's interval timer
sessionCleanup(W, t) ==
    [W EXCEPT !.keys = {sessionId \in @ : ~Expired(W, sessionId, t)}]

\* ------------------------------------------------------- outbound frames
NoFunctionCall == [call_id |-> NoCallId, name |-> "", arguments |-> << >>]

\* turn is bookkeeping: the invocation a frame was sent for (0: none)
Frame(type, turn) ==
    [type |-> type, text |-> << >>, functionCall |-> NoFunctionCall,
     code |-> "", id |-> NullId, responseId |-> NullId, turn |-> turn]

ConnectionEstablished(clientId) ==
    [Frame("connection_established", 0) EXCEPT !.id = clientId]

SessionUpdate(sessionId) == [Frame("session_update", 0) EXCEPT !.id = sessionId]

StreamStart(sessionId, turn) ==
    [Frame("stream_start", turn) EXCEPT !.id = sessionId]

StreamChunkText(chunk, turn) == [Frame("stream_chunk", turn) EXCEPT !.text = chunk]

StreamChunkCall(functionCall, turn) ==
    [Frame("stream_chunk", turn) EXCEPT !.functionCall = functionCall]

StreamEnd(responseId, sessionId, turn) ==
    [Frame("stream_end", turn) EXCEPT !.id = sessionId, !.responseId = responseId]

StreamError(turn) == Frame("stream_error", turn)

ErrorFrame(code, turn) == [Frame("error", turn) EXCEPT !.code = code]

\* a variant of sendMessage that puts the frame in front of the earlier ones
sendMessageInFront(W, c, message) ==
    IF W.conn[c].readyState = "OPEN"
    THEN [W EXCEPT !.sent[c] = <<message>> \o @]
    ELSE W

sendMessage(W, c, message) ==
    IF W.conn[c].readyState = "OPEN"
    THEN [W EXCEPT !.sent[c] = Append(@, message)]
    ELSE W

sendError(W, c, code, turn) == sendMessage(W, c, ErrorFrame(code, turn))

\* --------------------------------------------------------------- gateway
allowedOrigins ==
    {"https://www.figma.com", "https://figma.com", "https://www.figjam.com",
     "https://figjam.com", "http://localhost:3000", "null"}

NoOrigin == ""

\* a variant of the origin test that lets every origin in
isOriginAllowedAlways(origin, NODE_ENV) == origin = origin

isOriginAllowed(origin, NODE_ENV) ==
    \/ origin # NoOrigin /\ origin \in allowedOrigins
    \/ origin = NoOrigin /\ NODE_ENV = "development"

\* wss.on("connection"): the new client object gets the next clientId.
\* probes and pongs are bookkeeping: the heartbeat ticks that found the client
\* in the Map `clients`, and the pongs that answered a ping; origin is
\* req.headers.origin.
onConnection(W, origin, NODE_ENV) ==
    LET clientId == Len(W.conn) + 1
        client == [readyState |-> "OPEN", sessionId |-> NullId, isAlive |-> TRUE,
                   origin |-> origin, probes |-> 0, pongs |-> 0]
    IN  IF ~isOriginAllowed(origin, NODE_ENV)
        THEN [W EXCEPT !.conn = Append(@, [client EXCEPT !.readyState = "CLOSED"]),
                       !.sent = Append(@, << >>)]
        ELSE sendMessage([W EXCEPT !.conn = Append(@, client),
                                   !.sent = Append(@, << >>),
                                   !.clients = @ \cup {clientId}],
                         clientId, ConnectionEstablished(clientId))

\* client.on("close")
onClose(W, c) ==
    [W EXCEPT !.conn[c].readyState = "CLOSED", !.clients = @ \ {c}]

\* client.on("pong")
onPong(W, c) == [W EXCEPT !.conn[c].isAlive = TRUE, !.conn[c].pongs = @ + 1]

\* a variant of the heartbeat callback that pings again instead of
\* terminating
heartbeatForgiving(W) ==
    [W EXCEPT !.conn = [c \in DOMAIN W.conn |->
                          IF c \in W.clients /\ W.conn[c].readyState = "OPEN"
                          THEN [W.conn[c] EXCEPT !.isAlive = FALSE, !.probes = @ + 1]
                          ELSE W.conn[c]],
              !.clients = {c \in @ : W.conn[c].readyState = "OPEN"}]

\* a variant of the heartbeat callback that terminates a client at its second
\* tick whether or not it answered the ping
heartbeatIgnoringPong(W) ==
    [W EXCEPT !.conn = [c \in DOMAIN W.conn |->
                          IF c \notin W.clients \/ W.conn[c].readyState # "OPEN"
                          THEN W.conn[c]
                          ELSE IF W.conn[c].probes >= 1
                          THEN [W.conn[c] EXCEPT !.readyState = "CLOSED",
                                                 !.probes = @ + 1]
                          ELSE [W.conn[c] EXCEPT !.isAlive = FALSE, !.probes = @ + 1]],
              !.clients = {c \in @ : /\ W.conn[c].readyState = "OPEN"
                                     /\ W.conn[c].probes < 1}]

\* the callback of setupHeartbeat's interval timer: clients.forEach(...)
heartbeat(W) ==
    [W EXCEPT !.conn = [c \in DOMAIN W.conn |->
                          IF c \notin W.clients \/ W.conn[c].readyState # "OPEN"
                          THEN W.conn[c]
                          ELSE IF W.conn[c].isAlive = FALSE
                          THEN [W.conn[c] EXCEPT !.readyState = "CLOSED",
                                                 !.probes = @ + 1]
                          ELSE [W.conn[c] EXCEPT !.isAlive = FALSE, !.probes = @ + 1]],
              !.clients = {c \in @ : /\ W.conn[c].readyState = "OPEN"
                                     /\ W.conn[c].isAlive # FALSE}]

\* ------------------------------------------------- generation invocations
\* The state of one generateChatResponseStream call: the closure of the
\* handler that started it (kind, client, sessionId, dataId: the id under
\* which the closure's sessionData object was allocated), its arguments
\* (input, prevId), the upstream events still to come, and its locals.
\* upstream, nComplete, nError and emitted are bookkeeping.
NewInvocation(kind, c, sessionId, dataId, input, prevId, upstream) ==
    [kind |-> kind, client |-> c, sessionId |-> sessionId, dataId |-> dataId,
     input |-> input, prevId |-> prevId,
     upstream |-> upstream, stream |-> upstream, pc |-> "running",
     responseId |-> EmptyId, fullTextResponse |-> << >>,
     currentFunctionCall |-> NoFunctionCall, functionArgumentsBuffer |-> << >>,
     finalStatus |-> "undefined",
     nComplete |-> 0, nError |-> 0, emitted |-> << >>]

\* handleChatMessage, up to the first await of generateChatResponseStream
handleChatMessage(W, c, sessionId, content, upstream, t) ==
    LET got == getOrCreateSession(W, sessionId, t)
        dataId == got.sessionId
        previousResponseId == got.W.objs[dataId].previousResponseId
        newUserMessage == UserMessage(content)
        W1 == addMessageToHistory(got.W, sessionId, newUserMessage, t)
        messagesForAPI ==
            IF Falsy(previousResponseId)
            THEN ensureSystemInstruction(W1.objs[dataId].chatHistory)
            ELSE <<newUserMessage>>
        turn == Len(W.inv) + 1
        W2 == sendMessage(W1, c, StreamStart(sessionId, turn))
    IN  [W2 EXCEPT !.inv = Append(@,
            NewInvocation("chat", c, sessionId, dataId, messagesForAPI,
                          IF Falsy(previousResponseId) THEN NullId
                          ELSE previousResponseId,
                          upstream))]

\* client.on("message") for a frame that isChatMessageRequest accepts
onChatMessage(W, c, payloadSessionId, content, upstream, t) ==
    IF Falsy(W.conn[c].sessionId)
    THEN LET got == getOrCreateSession(W, payloadSessionId, t)
             W1 == [got.W EXCEPT !.conn[c].sessionId = got.sessionId]
             W2 == sendMessage(W1, c, SessionUpdate(got.sessionId))
         IN  handleChatMessage(W2, c, got.sessionId, content, upstream, t)
    ELSE handleChatMessage(W, c, W.conn[c].sessionId, content, upstream, t)

\* a variant of handleFunctionResult that passes the two input items in the
\* opposite order
handleFunctionResultReversed(W, c, sessionId, call_id, output, upstream, t) ==
    LET functionResultMessage == FunctionCallOutputMessage(call_id, output)
        W1 == addMessageToHistory(W, sessionId, functionResultMessage, t)
        got == getOrCreateSession(W1, sessionId, t)
        W2 == got.W
        dataId == got.sessionId
        previousResponseId == W2.objs[dataId].previousResponseId
        history == W2.objs[dataId].chatHistory
        n == Len(history)
        foundResult ==
            /\ n >= 2
            /\ isFunctionCallOutputMessage(history[n])
            /\ history[n].call_id = call_id
        foundAssistant ==
            /\ n >= 2
            /\ isBackendChatMessage(history[n - 1])
            /\ history[n - 1].role = "assistant"
            /\ \E k \in DOMAIN history[n - 1].tool_calls :
                  history[n - 1].tool_calls[k].id = call_id
        turn == Len(W.inv) + 1
    IN  IF Falsy(previousResponseId)
        THEN sendError(W2, c, "INTERNAL_ERROR", 0)
        ELSE IF ~foundAssistant \/ ~foundResult
        THEN sendError(W2, c, "INTERNAL_ERROR", 0)
        ELSE [sendMessage(W2, c, StreamStart(sessionId, turn)) EXCEPT !.inv =
                Append(@, NewInvocation("result", c, sessionId, dataId,
                                        <<history[n], history[n - 1]>>,
                                        previousResponseId, upstream))]

\* handleFunctionResult, up to the first await of generateChatResponseStream
handleFunctionResult(W, c, sessionId, call_id, output, upstream, t) ==
    LET functionResultMessage == FunctionCallOutputMessage(call_id, output)
        W1 == addMessageToHistory(W, sessionId, functionResultMessage, t)
        got == getOrCreateSession(W1, sessionId, t)
        W2 == got.W
        dataId == got.sessionId
        previousResponseId == W2.objs[dataId].previousResponseId
        history == W2.objs[dataId].chatHistory
        n == Len(history)
        foundResult ==
            /\ n >= 2
            /\ isFunctionCallOutputMessage(history[n])
            /\ history[n].call_id = call_id
        foundAssistant ==
            /\ n >= 2
            /\ isBackendChatMessage(history[n - 1])
            /\ history[n - 1].role = "assistant"
            /\ \E k \in DOMAIN history[n - 1].tool_calls :
                  history[n - 1].tool_calls[k].id = call_id
        turn == Len(W.inv) + 1
    IN  IF Falsy(previousResponseId)
        THEN sendError(W2, c, "INTERNAL_ERROR", 0)
        ELSE IF ~foundAssistant \/ ~foundResult
        THEN sendError(W2, c, "INTERNAL_ERROR", 0)
        ELSE [sendMessage(W2, c, StreamStart(sessionId, turn)) EXCEPT !.inv =
                Append(@, NewInvocation("result", c, sessionId, dataId,
                                        <<history[n - 1], history[n]>>,
                                        previousResponseId, upstream))]

\* client.on("message") for a frame that isFunctionResultRequest accepts
onFunctionResult(W, c, payloadSessionId, call_id, output, upstream, t) ==
    LET W0 == isValidSessionEffect(W, payloadSessionId, t)
    IN  IF ~isValidSession(W, payloadSessionId, t)
        THEN sendError(W0, c, "SESSION_ERROR", 0)
        ELSE handleFunctionResult([W0 EXCEPT !.conn[c].sessionId = payloadSessionId],
                                  c, payloadSessionId, call_id, output, upstream, t)

\* -------------------------------------------------------- inbound frames
\* An inbound frame: bytes is the length of the buffer, wide the number of
\* two-byte UTF-8 characters in it, json whether its text is a JSON document
\* and message the value JSON.parse returns for it.  A parsed value is given
\* by the properties the type guards read: type, payload.message,
\* payload.sessionId, payload.functionCallOutput.call_id and .output
\* (Undefined, or NullId for sessionId, when absent or not a string).
Undefined == <<"<undefined>">>

Message(type, message, sessionId, call_id, output) ==
    [type |-> type, message |-> message, sessionId |-> sessionId,
     call_id |-> call_id, output |-> output]

RawMessage(bytes, wide, json, message) ==
    [bytes |-> bytes, wide |-> wide, json |-> json, message |-> message]

\* rawMessage.toString().length: UTF-16 code units of the decoded text
messageStringLength(rawMessage) == rawMessage.bytes - rawMessage.wide

\* the error frame with its message text
errorPayload(code, message) == [ErrorFrame(code, 0) EXCEPT !.text = message]

\* a variant of the handler's catch block that also terminates the connection
messageCatchTerminating(W, c, error) ==
    [sendMessage(W, c, IF error = "SyntaxError"
                       THEN errorPayload("BAD_REQUEST", <<"Invalid JSON format.">>)
                       ELSE errorPayload("INTERNAL_ERROR", <<"Failed to process message.">>))
        EXCEPT !.conn[c].readyState = "CLOSED", !.clients = @ \ {c}]

\* the catch block of the message handler
messageCatch(W, c, error) ==
    sendMessage(W, c, IF error = "SyntaxError"
                      THEN errorPayload("BAD_REQUEST", <<"Invalid JSON format.">>)
                      ELSE errorPayload("INTERNAL_ERROR", <<"Failed to process message.">>))

\* a variant of isChatMessageRequest that looks at the type only
isChatMessageRequestByType(message) == message.type = "chat_message"

isChatMessageRequest(message) ==
    message.type = "chat_message" /\ message.message # Undefined

isFunctionResultRequest(message) ==
    /\ message.type = "function_result"
    /\ message.sessionId # NullId
    /\ message.call_id # Undefined
    /\ message.output # Undefined

\* client.on("message"), up to the first await of generateChatResponseStream
onMessage(W, c, rawMessage, upstream, t) ==
    IF messageStringLength(rawMessage) > MAX_MESSAGE_LENGTH
    THEN sendMessage(W, c, errorPayload("BAD_REQUEST", <<"Message size exceeds limit.">>))
    ELSE IF ~rawMessage.json
    THEN messageCatch(W, c, "SyntaxError")
    ELSE LET message == rawMessage.message
         IN  IF isChatMessageRequest(message)
             THEN onChatMessage(W, c, message.sessionId, message.message, upstream, t)
             ELSE IF isFunctionResultRequest(message)
             THEN onFunctionResult(W, c, message.sessionId, message.call_id,
                                   message.output, upstream, t)
             ELSE sendMessage(W, c, errorPayload("BAD_REQUEST",
                                    <<"Unknown message type or invalid format.">>))

\* ------------------------------------------------------- upstream events
\* One event of the upstream response stream.  item is the index of the
\* function_call output item an output_item.added event announces, text the
\* event's delta or arguments (NullText: undefined), status the status of the
\* response a response.completed event carries.  "throw" stands for the
\* stream iterator rejecting, "reject" for openai.responses.create rejecting.
Event(type) == [type |-> type, item |-> 0, text |-> << >>, status |-> ""]

ResponseCreatedEvent == Event("response.created")

OutputItemAddedEvent(item) == [Event("response.output_item.added") EXCEPT !.item = item]

ArgumentsDeltaEvent(delta) ==
    [Event("response.function_call_arguments.delta") EXCEPT !.text = delta]

ArgumentsDoneEvent(arguments) ==
    [Event("response.function_call_arguments.done") EXCEPT !.text = arguments]

OutputTextDeltaEvent(delta) == [Event("response.output_text.delta") EXCEPT !.text = delta]

RefusalDeltaEvent(delta) == [Event("response.refusal.delta") EXCEPT !.text = delta]

ResponseCompletedEvent(status) == [Event("response.completed") EXCEPT !.status = status]

ErrorEvent == Event("error")

OtherEvent == Event("response.in_progress")

ThrowEvent == Event("throw")

RejectEvent == Event("reject")

\* ------------------------------------------------------ canonical events
\* what one invocation handed to its callbacks, in order (bookkeeping)
Emitted(kind) ==
    [kind |-> kind, text |-> << >>, functionCall |-> NoFunctionCall,
     responseId |-> NullId]

\* ------------------------------------------- the handlers' four callbacks
\* g is the invocation (the closure), i its index
onChunk(W, i, chunk) ==
    sendMessage(W, W.inv[i].client, StreamChunkText(chunk, i))

onFunctionCall(W, i, functionCall, t) ==
    LET g == W.inv[i]
        W1 == addMessageToHistory(W, g.sessionId,
                                  AssistantMessageWithCall(functionCall), t)
    IN  sendMessage(W1, g.client, StreamChunkCall(functionCall, i))

IsAssistantRequest(msg) ==
    isBackendChatMessage(msg) /\ msg.role = "assistant" /\ msg.tool_calls # NoToolCalls

HasText(finalText) ==
    finalText # NullText /\ finalText # << >> /\ Trim(finalText) # << >>

\* a variant of onComplete that never stores the final text
onCompleteDroppingText(W, i, finalText, responseId, t) ==
    LET g == W.inv[i]
        requests == SelectSeq(W.objs[g.dataId].chatHistory, IsAssistantRequest)
        message ==
            IF requests # << >> THEN Last(requests)
            ELSE AssistantMessage(<< >>)
        W1 == updateSessionData(W, g.sessionId, responseId, message, t)
    IN  sendMessage(W1, g.client, StreamEnd(responseId, g.sessionId, i))

\* a variant of onComplete that gives the turn up when its connection is closed
onCompleteIfOpen(W, i, finalText, responseId, t) ==
    LET g == W.inv[i]
        requests == SelectSeq(W.objs[g.dataId].chatHistory, IsAssistantRequest)
        message ==
            IF HasText(finalText) THEN AssistantMessage(finalText)
            ELSE IF requests # << >> THEN Last(requests)
            ELSE AssistantMessage(<< >>)
        W1 == updateSessionData(W, g.sessionId, responseId, message, t)
    IN  IF W.conn[g.client].readyState = "OPEN"
        THEN sendMessage(W1, g.client, StreamEnd(responseId, g.sessionId, i))
        ELSE W

onComplete(W, i, finalText, responseId, t) ==
    LET g == W.inv[i]
        requests == SelectSeq(W.objs[g.dataId].chatHistory, IsAssistantRequest)
        message ==
            IF HasText(finalText) THEN AssistantMessage(finalText)
            ELSE IF requests # << >> THEN Last(requests)
            ELSE AssistantMessage(<< >>)
        W1 == updateSessionData(W, g.sessionId, responseId, message, t)
    IN  sendMessage(W1, g.client, StreamEnd(responseId, g.sessionId, i))

onError(W, i) ==
    LET c == W.inv[i].client
    IN  sendError(sendMessage(W, c, StreamError(i)), c, "AI_ERROR", i)

\* ------------------------------------------- generateChatResponseStream
CallOnChunk(W, i, chunk) ==
    onChunk([W EXCEPT !.inv[i].emitted =
                Append(@, [Emitted("text-delta") EXCEPT !.text = chunk])],
            i, chunk)

CallOnFunctionCall(W, i, functionCall, t) ==
    onFunctionCall([W EXCEPT !.inv[i].emitted =
                       Append(@, [Emitted("tool-call-requested") EXCEPT
                                    !.functionCall = functionCall])],
                   i, functionCall, t)

CallOnComplete(W, i, finalText, responseId, t) ==
    onComplete([W EXCEPT !.inv[i].nComplete = @ + 1,
                         !.inv[i].emitted =
                            Append(@, [Emitted("completed") EXCEPT
                                         !.text = finalText,
                                         !.responseId = responseId])],
               i, finalText, responseId, t)

CallOnError(W, i) ==
    onError([W EXCEPT !.inv[i].nError = @ + 1,
                      !.inv[i].emitted = Append(@, Emitted("error"))],
            i)

\* fullTextResponse || null
OrNull(text) == IF text = << >> THEN NullText ELSE text

\* the event was taken from the stream
Taken(W, i) == [W EXCEPT !.inv[i].stream = Tail(@)]

\* if (!responseId && event.type === "response.created" && event.response?.id):
\* the response of invocation i has id i
noteResponseId(W, i) ==
    IF W.inv[i].responseId = EmptyId
    THEN [W EXCEPT !.inv[i].responseId = i]
    ELSE W

caseOutputItemAdded(W, i, event) ==
    [W EXCEPT !.inv[i].functionArgumentsBuffer = << >>,
              !.inv[i].currentFunctionCall =
                  [call_id |-> <<i, event.item>>, name |-> "detectAllNodes",
                   arguments |-> << >>]]

caseArgumentsDelta(W, i, event) ==
    IF W.inv[i].currentFunctionCall # NoFunctionCall /\ event.text # << >>
    THEN [W EXCEPT !.inv[i].functionArgumentsBuffer = @ \o event.text]
    ELSE W

\* a variant of the arguments.done case that keeps the function call current
caseArgumentsDoneKeepingCall(W, i, event, t) ==
    LET g == W.inv[i]
    IN  IF g.currentFunctionCall # NoFunctionCall /\ event.text # NullText
        THEN CallOnFunctionCall(W, i, [g.currentFunctionCall EXCEPT
                                         !.arguments = event.text], t)
        ELSE W

caseArgumentsDone(W, i, event, t) ==
    LET g == W.inv[i]
    IN  IF g.currentFunctionCall # NoFunctionCall /\ event.text # NullText
        THEN LET call == [g.currentFunctionCall EXCEPT !.arguments = event.text]
                 W1 == CallOnFunctionCall(W, i, call, t)
             IN  [W1 EXCEPT !.inv[i].currentFunctionCall = NoFunctionCall,
                            !.inv[i].functionArgumentsBuffer = << >>]
        ELSE W

caseOutputTextDelta(W, i, event) ==
    IF event.text # << >>
    THEN CallOnChunk([W EXCEPT !.inv[i].fullTextResponse = @ \o event.text],
                     i, event.text)
    ELSE W

caseRefusalDelta(W, i, event) ==
    IF event.text # << >>
    THEN LET refusalText == <<"[Refusal]: ">> \o event.text
         IN  CallOnChunk([W EXCEPT !.inv[i].fullTextResponse = @ \o refusalText],
                         i, refusalText)
    ELSE W

caseResponseCompleted(W, i, event, t) ==
    LET W1 == [W EXCEPT !.inv[i].finalStatus = event.status]
        g == W1.inv[i]
    IN  IF event.status = "failed"
        THEN CallOnError(W1, i)
        ELSE CallOnComplete(W1, i, OrNull(g.fullTextResponse), g.responseId, t)

caseError(W, i) == [CallOnError(W, i) EXCEPT !.inv[i].pc = "returned"]

\* the statements after the for-await loop
afterLoop(W, i, t) ==
    LET g == W.inv[i]
        W1 == [W EXCEPT !.inv[i].pc = "returned"]
    IN  IF g.finalStatus = "undefined" /\ g.responseId # EmptyId
        THEN CallOnComplete(W1, i, OrNull(g.fullTextResponse), g.responseId, t)
        ELSE IF g.finalStatus = "undefined"
        THEN CallOnError(W1, i)
        ELSE W1

\* a variant of the catch block that lets the exception go on to the caller
catchBlockRethrowing(W, i) == [W EXCEPT !.inv[i].pc = "rejected"]

\* the catch block
catchBlock(W, i) == [CallOnError(W, i) EXCEPT !.inv[i].pc = "returned"]

\* one turn of the for-await loop of invocation i, or the code after it
loopIteration(W, i, t) ==
    IF W.inv[i].stream = << >> THEN afterLoop(W, i, t)
    ELSE LET event == Head(W.inv[i].stream)
             W1 == Taken(W, i)
         IN  CASE event.type = "response.created" -> noteResponseId(W1, i)
               [] event.type = "response.output_item.added" ->
                      caseOutputItemAdded(W1, i, event)
               [] event.type = "response.function_call_arguments.delta" ->
                      caseArgumentsDelta(W1, i, event)
               [] event.type = "response.function_call_arguments.done" ->
                      caseArgumentsDone(W1, i, event, t)
               [] event.type = "response.output_text.delta" ->
                      caseOutputTextDelta(W1, i, event)
               [] event.type = "response.refusal.delta" ->
                      caseRefusalDelta(W1, i, event)
               [] event.type = "response.completed" ->
                      caseResponseCompleted(W1, i, event, t)
               [] event.type = "error" -> caseError(W1, i)
               [] event.type \in {"throw", "reject"} -> catchBlock(W1, i)
               [] OTHER -> W1

\* ------------------------------------------------------------ the inputs
Origins == {"https://www.figma.com", "https://evil.example", NoOrigin}

UserText == <<"hi">>

ToolOutput == <<"{}">>

Arguments == <<"{}">>

\* the upstream responses the gateway is run against
TextStream ==
    <<ResponseCreatedEvent, OutputTextDeltaEvent(<<"a">>),
      OutputTextDeltaEvent(<<"b">>), ResponseCompletedEvent("completed")>>

ToolCallStream ==
    <<ResponseCreatedEvent, OutputItemAddedEvent(1), ArgumentsDoneEvent(Arguments),
      ResponseCompletedEvent("completed")>>

ToolCallThenTextStream ==
    <<ResponseCreatedEvent, OutputItemAddedEvent(1), ArgumentsDeltaEvent(Arguments),
      ArgumentsDoneEvent(Arguments), OutputTextDeltaEvent(<<"a">>),
      ResponseCompletedEvent("completed")>>

TwoToolCallsStream ==
    <<ResponseCreatedEvent, OutputItemAddedEvent(1), ArgumentsDoneEvent(Arguments),
      OutputItemAddedEvent(2), ArgumentsDoneEvent(Arguments),
      ResponseCompletedEvent("completed")>>

FailedStream == <<ResponseCreatedEvent, ResponseCompletedEvent("failed")>>

ErrorStream == <<ErrorEvent>>

CompletedThenThrowStream ==
    <<ResponseCreatedEvent, ResponseCompletedEvent("completed"), ThrowEvent>>

UnfinishedStream ==
    <<ResponseCreatedEvent, OtherEvent, RefusalDeltaEvent(<<"a">>)>>

Streams ==
    {TextStream, ToolCallStream, ToolCallThenTextStream, TwoToolCallsStream,
     FailedStream, ErrorStream, CompletedThenThrowStream, UnfinishedStream,
     << >>, <<RejectEvent>>}

\* every upstream event sequence of at most MaxStreamLen events
Alphabet ==
    {ResponseCreatedEvent, OutputItemAddedEvent(1), OutputItemAddedEvent(2),
     ArgumentsDeltaEvent(Arguments),
     ArgumentsDoneEvent(Arguments), ArgumentsDoneEvent(NullText),
     OutputTextDeltaEvent(<<"a">>), OutputTextDeltaEvent(<<"b">>),
     OutputTextDeltaEvent(<< >>), RefusalDeltaEvent(<<"a">>), OtherEvent, ErrorEvent,
     ResponseCompletedEvent("completed"), ResponseCompletedEvent("incomplete"),
     ResponseCompletedEvent("failed"), ResponseCompletedEvent("undefined")}

RECURSIVE SeqsUpTo(_, _)
SeqsUpTo(S, n) ==
    IF n = 0 THEN {<< >>}
    ELSE LET shorter == SeqsUpTo(S, n - 1)
         IN  shorter \cup {Append(q, x) : q \in {r \in shorter : Len(r) = n - 1}, x \in S}

AllStreams ==
    LET plain == SeqsUpTo(Alphabet, MaxStreamLen)
    IN  plain \cup {<<RejectEvent>>}
          \cup {Append(q, ThrowEvent) : q \in {r \in plain : Len(r) < MaxStreamLen}}

\* the call ids a connection has been sent in a functionCall chunk
ForwardedCalls ==
    UNION {{sent[c][k].functionCall.call_id : k \in DOMAIN sent[c]} :
            c \in DOMAIN sent} \ {NoCallId}

\* ---------------------------------------------------------- state machine
World ==
    [objs |-> sessionObjs, keys |-> sessions, conn |-> conn,
     clients |-> clients, sent |-> sent, inv |-> inv]

Becomes(W) ==
    /\ sessionObjs' = W.objs
    /\ sessions' = W.keys
    /\ conn' = W.conn
    /\ clients' = W.clients
    /\ sent' = W.sent
    /\ inv' = W.inv

EmptyWorld ==
    [objs |-> << >>, keys |-> {}, conn |-> << >>, clients |-> {},
     sent |-> << >>, inv |-> << >>]

Init ==
    /\ sessionObjs = << >>
    /\ sessions = {}
    /\ now = 0
    /\ conn = << >>
    /\ clients = {}
    /\ sent = << >>
    /\ inv = << >>
    /\ nodeEnv \in {"development", "production"}
    /\ frames = 0

\* a peer connects
Connect(origin) ==
    /\ Len(conn) < MaxClients
    /\ Becomes(onConnection(World, origin, nodeEnv))
    /\ UNCHANGED <<now, nodeEnv, frames>>

\* the peer of an open connection closes it
Close(c) ==
    /\ conn[c].readyState = "OPEN"
    /\ Becomes(onClose(World, c))
    /\ UNCHANGED <<now, nodeEnv, frames>>

\* a chat_message frame arrives; upstream is the response its generation
\* call is going to receive
ChatMessage(c, payloadSessionId, upstream) ==
    /\ frames < MaxFrames
    /\ conn[c].readyState = "OPEN"
    /\ Becomes(onChatMessage(World, c, payloadSessionId, UserText, upstream, now))
    /\ frames' = frames + 1
    /\ UNCHANGED <<now, nodeEnv>>

\* a function_result frame arrives
FunctionResult(c, payloadSessionId, call_id, upstream) ==
    /\ frames < MaxFrames
    /\ conn[c].readyState = "OPEN"
    /\ Becomes(onFunctionResult(World, c, payloadSessionId, call_id, ToolOutput,
                                upstream, now))
    /\ frames' = frames + 1
    /\ UNCHANGED <<now, nodeEnv>>

\* invocation i is suspended in its for-await loop and the next upstream
\* event has the given type
Awaits(i, type) ==
    /\ inv[i].pc = "running"
    /\ inv[i].stream # << >>
    /\ Head(inv[i].stream).type = type

NextEvent(i) == Head(inv[i].stream)

GeneratorStep(W) == Becomes(W) /\ UNCHANGED <<now, nodeEnv, frames>>

ResponseCreated(i) ==
    /\ Awaits(i, "response.created")
    /\ GeneratorStep(noteResponseId(Taken(World, i), i))

OutputItemAdded(i) ==
    /\ Awaits(i, "response.output_item.added")
    /\ GeneratorStep(caseOutputItemAdded(Taken(World, i), i, NextEvent(i)))

ArgumentsDelta(i) ==
    /\ Awaits(i, "response.function_call_arguments.delta")
    /\ GeneratorStep(caseArgumentsDelta(Taken(World, i), i, NextEvent(i)))

ArgumentsDone(i) ==
    /\ Awaits(i, "response.function_call_arguments.done")
    /\ GeneratorStep(caseArgumentsDone(Taken(World, i), i, NextEvent(i), now))

OutputTextDelta(i) ==
    /\ Awaits(i, "response.output_text.delta")
    /\ GeneratorStep(caseOutputTextDelta(Taken(World, i), i, NextEvent(i)))

RefusalDelta(i) ==
    /\ Awaits(i, "response.refusal.delta")
    /\ GeneratorStep(caseRefusalDelta(Taken(World, i), i, NextEvent(i)))

ResponseCompleted(i) ==
    /\ Awaits(i, "response.completed")
    /\ GeneratorStep(caseResponseCompleted(Taken(World, i), i, NextEvent(i), now))

StreamErrorEvent(i) ==
    /\ Awaits(i, "error")
    /\ GeneratorStep(caseError(Taken(World, i), i))

IgnoredEvent(i) ==
    /\ Awaits(i, "response.in_progress")
    /\ GeneratorStep(Taken(World, i))

StreamEnds(i) ==
    /\ inv[i].pc = "running"
    /\ inv[i].stream = << >>
    /\ GeneratorStep(afterLoop(World, i, now))

StreamThrows(i) ==
    /\ Awaits(i, "throw")
    /\ GeneratorStep(catchBlock(Taken(World, i), i))

CreateRejects(i) ==
    /\ Awaits(i, "reject")
    /\ GeneratorStep(catchBlock(Taken(World, i), i))

Generate ==
    \/ \E i \in DOMAIN inv : ResponseCreated(i)
    \/ \E i \in DOMAIN inv : OutputItemAdded(i)
    \/ \E i \in DOMAIN inv : ArgumentsDelta(i)
    \/ \E i \in DOMAIN inv : ArgumentsDone(i)
    \/ \E i \in DOMAIN inv : OutputTextDelta(i)
    \/ \E i \in DOMAIN inv : RefusalDelta(i)
    \/ \E i \in DOMAIN inv : ResponseCompleted(i)
    \/ \E i \in DOMAIN inv : StreamErrorEvent(i)
    \/ \E i \in DOMAIN inv : IgnoredEvent(i)
    \/ \E i \in DOMAIN inv : StreamEnds(i)
    \/ \E i \in DOMAIN inv : StreamThrows(i)
    \/ \E i \in DOMAIN inv : CreateRejects(i)

SessionIdsSeen == DOMAIN sessionObjs

Next ==
    \/ \E origin \in Origins : Connect(origin)
    \/ \E c \in DOMAIN conn : Close(c)
    \/ \E c \in DOMAIN conn, sid \in SessionIdsSeen \cup {NullId, UnknownSession},
          upstream \in Streams :
            ChatMessage(c, sid, upstream)
    \/ \E c \in DOMAIN conn, sid \in SessionIdsSeen \cup {UnknownSession},
          call_id \in ForwardedCalls \cup {WrongCallId}, upstream \in Streams :
            FunctionResult(c, sid, call_id, upstream)
    \/ Generate

\* the gateway serving connections, all within one TTL window
Spec == Init /\ [][Next]_vars

\* One chat turn against every upstream response: the state after a peer
\* connected and sent its first chat_message, then the generation call alone.
InitGen ==
    /\ now = 0
    /\ nodeEnv = "production"
    /\ frames = 1
    /\ \E upstream \in AllStreams :
        LET W1 == onConnection(EmptyWorld, "https://www.figma.com", "production")
            W2 == onChatMessage(W1, 1, NullId, UserText, upstream, 0)
        IN  /\ sessionObjs = W2.objs
            /\ sessions = W2.keys
            /\ conn = W2.conn
            /\ clients = W2.clients
            /\ sent = W2.sent
            /\ inv = W2.inv

SpecGen == InitGen /\ [][Generate]_vars

\* --------------------------------------------------- the passing of time
\* twelve hours pass
Tick ==
    /\ now < MaxTime
    /\ now' = now + 1
    /\ UNCHANGED <<sessionObjs, sessions, conn, clients, sent, inv, nodeEnv, frames>>

\* the cleanup timer fires (every hour: at any point between two frames)
SessionCleanup ==
    /\ Becomes(sessionCleanup(World, now))
    /\ UNCHANGED <<now, nodeEnv, frames>>

\* the upstream responses the gateway is run against while time passes
StreamsTTL == {TextStream, ToolCallStream, ErrorStream}

NextTTL ==
    \/ \E origin \in Origins : Connect(origin)
    \/ \E c \in DOMAIN conn : Close(c)
    \/ \E c \in DOMAIN conn, sid \in SessionIdsSeen \cup {NullId, UnknownSession},
          upstream \in StreamsTTL :
            ChatMessage(c, sid, upstream)
    \/ \E c \in DOMAIN conn, sid \in SessionIdsSeen \cup {UnknownSession},
          call_id \in ForwardedCalls \cup {WrongCallId}, upstream \in StreamsTTL :
            FunctionResult(c, sid, call_id, upstream)
    \/ \E i \in DOMAIN inv : ResponseCreated(i)
    \/ \E i \in DOMAIN inv : OutputItemAdded(i)
    \/ \E i \in DOMAIN inv : ArgumentsDone(i)
    \/ \E i \in DOMAIN inv : OutputTextDelta(i)
    \/ \E i \in DOMAIN inv : ResponseCompleted(i)
    \/ \E i \in DOMAIN inv : StreamErrorEvent(i)
    \/ \E i \in DOMAIN inv : StreamEnds(i)
    \/ Tick
    \/ SessionCleanup

\* the gateway over several TTL windows, with the cleanup timer, against
\* text, tool-call and failing responses
SpecTTL == Init /\ [][NextTTL]_vars

\* ------------------------------------------------------------ reconnects
\* a peer whose established connection was closed connects again
Reconnect(origin) ==
    /\ Len(conn) >= MaxClients
    /\ Len(conn) < MaxClients + MaxReconnects
    /\ Cardinality({c \in DOMAIN conn : conn[c].readyState = "OPEN"}) < MaxClients
    /\ \E c \in DOMAIN conn : conn[c].readyState = "CLOSED" /\ sent[c] # << >>
    /\ Becomes(onConnection(World, origin, nodeEnv))
    /\ UNCHANGED <<now, nodeEnv, frames>>

NextReconnect ==
    \/ Next
    \/ \E origin \in Origins \cap allowedOrigins : Reconnect(origin)

\* the gateway with peers that come back on a new connection
SpecReconnect == Init /\ [][NextReconnect]_vars

\* ------------------------------------------------------------- heartbeat
\* the heartbeat timer fires
Heartbeat ==
    /\ \E c \in clients : conn[c].readyState = "OPEN"
    /\ \A c \in clients : conn[c].probes < MaxHeartbeats
    /\ Becomes(heartbeat(World))
    /\ UNCHANGED <<now, nodeEnv, frames>>

\* the peer of connection c answers the last ping
Pong(c) ==
    /\ conn[c].readyState = "OPEN"
    /\ conn[c].isAlive = FALSE
    /\ Becomes(onPong(World, c))
    /\ UNCHANGED <<now, nodeEnv, frames>>

\* the upstream responses the gateway is run against under the heartbeat
StreamsHeartbeat == {TextStream}

NextHeartbeat ==
    \/ \E origin \in Origins : Connect(origin)
    \/ \E c \in DOMAIN conn : Close(c)
    \/ \E c \in DOMAIN conn, sid \in SessionIdsSeen \cup {NullId},
          upstream \in StreamsHeartbeat :
            ChatMessage(c, sid, upstream)
    \/ \E i \in DOMAIN inv : ResponseCreated(i)
    \/ \E i \in DOMAIN inv : OutputTextDelta(i)
    \/ \E i \in DOMAIN inv : ResponseCompleted(i)
    \/ Heartbeat
    \/ \E c \in DOMAIN conn : Pong(c)

\* the gateway with its heartbeat timer
SpecHeartbeat == Init /\ [][NextHeartbeat]_vars

\* ----------------------------------------------------------- a later turn
\* invocation i run until it returns
RECURSIVE RunToReturn(_, _, _)
RunToReturn(W, i, t) ==
    IF W.inv[i].pc # "running" THEN W
    ELSE RunToReturn(loopIteration(W, i, t), i, t)

\* the upstream responses of the turns that follow a completed turn
StreamsSecondTurn == {TextStream, ToolCallStream}

\* the state after a peer connected and its first chat turn completed with
\* text
InitSecondTurn ==
    /\ now = 0
    /\ nodeEnv = "production"
    /\ frames = 0
    /\ LET W1 == onConnection(EmptyWorld, "https://www.figma.com", "production")
           W2 == onChatMessage(W1, 1, NullId, UserText, TextStream, 0)
           W3 == RunToReturn(W2, 1, 0)
       IN  /\ sessionObjs = W3.objs
           /\ sessions = W3.keys
           /\ conn = W3.conn
           /\ clients = W3.clients
           /\ sent = W3.sent
           /\ inv = W3.inv

NextSecondTurn ==
    \/ \E c \in DOMAIN conn : Close(c)
    \/ \E c \in DOMAIN conn, sid \in SessionIdsSeen, upstream \in StreamsSecondTurn :
          ChatMessage(c, sid, upstream)
    \/ \E c \in DOMAIN conn, sid \in SessionIdsSeen,
          call_id \in ForwardedCalls \cup {WrongCallId}, upstream \in StreamsSecondTurn :
            FunctionResult(c, sid, call_id, upstream)
    \/ \E i \in DOMAIN inv : ResponseCreated(i)
    \/ \E i \in DOMAIN inv : OutputItemAdded(i)
    \/ \E i \in DOMAIN inv : ArgumentsDone(i)
    \/ \E i \in DOMAIN inv : OutputTextDelta(i)
    \/ \E i \in DOMAIN inv : ResponseCompleted(i)
    \/ \E i \in DOMAIN inv : StreamEnds(i)

\* the turns of a session that already holds a continuation token
SpecSecondTurn == InitSecondTurn /\ [][NextSecondTurn]_vars

\* ------------------------------------------------- resolving a tool call
\* an upstream response that ends with neither text nor a tool call
EmptyTextStream == <<ResponseCreatedEvent, ResponseCompletedEvent("completed")>>

\* the upstream responses that continue a turn after a tool result
StreamsResolve == {TextStream, ToolCallStream, EmptyTextStream}

\* the state after a peer connected and its first chat turn completed with a
\* tool-call request forwarded to the peer
InitResolve ==
    /\ now = 0
    /\ nodeEnv = "production"
    /\ frames = 0
    /\ LET W1 == onConnection(EmptyWorld, "https://www.figma.com", "production")
           W2 == onChatMessage(W1, 1, NullId, UserText, ToolCallStream, 0)
           W3 == RunToReturn(W2, 1, 0)
       IN  /\ sessionObjs = W3.objs
           /\ sessions = W3.keys
           /\ conn = W3.conn
           /\ clients = W3.clients
           /\ sent = W3.sent
           /\ inv = W3.inv

NextResolve ==
    \/ \E c \in DOMAIN conn : Close(c)
    \/ \E c \in DOMAIN conn, sid \in SessionIdsSeen,
          call_id \in ForwardedCalls \cup {WrongCallId}, upstream \in StreamsResolve :
            FunctionResult(c, sid, call_id, upstream)
    \/ \E i \in DOMAIN inv : ResponseCreated(i)
    \/ \E i \in DOMAIN inv : OutputItemAdded(i)
    \/ \E i \in DOMAIN inv : ArgumentsDone(i)
    \/ \E i \in DOMAIN inv : OutputTextDelta(i)
    \/ \E i \in DOMAIN inv : ResponseCompleted(i)
    \/ \E i \in DOMAIN inv : StreamEnds(i)

\* the function_result frames that follow a forwarded tool-call request
SpecResolve == InitResolve /\ [][NextResolve]_vars

\* ------------------------------------------------------- frames as sent
\* the frame sizes tried: short, at the limit, and beyond it with and without
\* a two-byte character
FrameSizes ==
    {<<100, 0>>, <<MAX_MESSAGE_LENGTH, 0>>, <<MAX_MESSAGE_LENGTH + 1, 0>>,
     <<MAX_MESSAGE_LENGTH + 1, 1>>, <<MAX_MESSAGE_LENGTH + 2, 1>>}

\* the JSON values tried: null, an object of another type, a chat_message
\* without a message string, a function_result without call_id, and the
\* well-formed frames
MessagesSent ==
    {Message("<none>", Undefined, NullId, Undefined, Undefined),
     Message("ping", Undefined, NullId, Undefined, Undefined),
     Message("chat_message", Undefined, NullId, Undefined, Undefined),
     Message("function_result", Undefined, UnknownSession, Undefined, ToolOutput),
     Message("function_result", Undefined, NullId, WrongCallId, ToolOutput),
     Message("function_result", Undefined, UnknownSession, WrongCallId, Undefined)}
    \cup {Message("chat_message", UserText, sid, Undefined, Undefined) :
            sid \in SessionIdsSeen \cup {NullId}}
    \cup {Message("function_result", Undefined, sid, call_id, ToolOutput) :
            sid \in SessionIdsSeen \cup {UnknownSession}, call_id \in ForwardedCalls}

RawMessages ==
    {RawMessage(size[1], size[2], TRUE, message) :
        size \in FrameSizes, message \in MessagesSent}
    \cup {RawMessage(size[1], size[2], FALSE, Message("<none>", Undefined, NullId,
                                                      Undefined, Undefined)) :
            size \in FrameSizes}

\* the upstream responses the gateway is run against when frames are raw
StreamsRaw == {TextStream, ToolCallStream, CompletedThenThrowStream, <<RejectEvent>>}

\* a frame arrives on connection c
MessageArrives(c, rawMessage, upstream) ==
    /\ frames < MaxFrames
    /\ conn[c].readyState = "OPEN"
    /\ Becomes(onMessage(World, c, rawMessage, upstream, now))
    /\ frames' = frames + 1
    /\ UNCHANGED <<now, nodeEnv>>

NextRaw ==
    \/ \E origin \in Origins : Connect(origin)
    \/ \E c \in DOMAIN conn : Close(c)
    \/ \E c \in DOMAIN conn, rawMessage \in RawMessages, upstream \in StreamsRaw :
          MessageArrives(c, rawMessage, upstream)
    \/ \E i \in DOMAIN inv : ResponseCreated(i)
    \/ \E i \in DOMAIN inv : OutputItemAdded(i)
    \/ \E i \in DOMAIN inv : ArgumentsDone(i)
    \/ \E i \in DOMAIN inv : OutputTextDelta(i)
    \/ \E i \in DOMAIN inv : ResponseCompleted(i)
    \/ \E i \in DOMAIN inv : StreamEnds(i)
    \/ \E i \in DOMAIN inv : StreamThrows(i)
    \/ \E i \in DOMAIN inv : CreateRejects(i)

\* the gateway fed frames of every shape and size
SpecRaw == Init /\ [][NextRaw]_vars

\* ==================================================================== claims
HistoryOf(sid) == sessionObjs[sid].chatHistory

TokenOf(sid) == sessionObjs[sid].previousResponseId

IsOpen(c) == conn[c].readyState = "OPEN"

\* the frames connection c was sent for invocation i, in order
TurnFrames(i) ==
    LET OfTurn(f) == f.turn = i
    IN  SelectSeq(sent[inv[i].client], OfTurn)

\* the call ids requested in history h and not answered by a later ToolResult
PendingCallIds(h) ==
    {id \in UNION {{h[k].tool_calls[n].id : n \in DOMAIN h[k].tool_calls} :
                      k \in DOMAIN h} :
        \E k \in DOMAIN h :
            /\ \E n \in DOMAIN h[k].tool_calls : h[k].tool_calls[n].id = id
            /\ \A m \in DOMAIN h :
                  m > k => ~(isFunctionCallOutputMessage(h[m]) /\ h[m].call_id = id)}

\* some function_result frame with this session and call id is handled
FunctionResultFrame(c, sid, call_id) ==
    \E upstream \in Streams : FunctionResult(c, sid, call_id, upstream)

CallIdsOffered == ForwardedCalls \cup {WrongCallId}

\* C1 - desync rejection: a function_result frame for a valid session whose
\* call_id matches no pending tool-call request is answered with an error
\* frame, starts no generation call and leaves the session's history as it was.
C1_DesyncRejection ==
    [][\A c \in DOMAIN conn, sid \in SessionIdsSeen, call_id \in CallIdsOffered :
            ( /\ isValidSession(World, sid, now)
              /\ call_id \notin PendingCallIds(HistoryOf(sid))
              /\ FunctionResultFrame(c, sid, call_id) )
            => /\ Len(sent'[c]) = Len(sent[c]) + 1
               /\ Last(sent'[c]).type = "error"
               /\ inv' = inv
               /\ HistoryOf(sid)' = HistoryOf(sid)]_vars

\* C2 - history invariant: every ToolResult entry of every session's history
\* is immediately preceded by an AssistantMessage one of whose tool-call
\* requests carries the ToolResult's call id.
C2_NoOrphanedToolResult ==
    \A sid \in sessions :
        LET h == HistoryOf(sid)
        IN  \A k \in DOMAIN h :
                isFunctionCallOutputMessage(h[k]) =>
                    /\ k > 1
                    /\ isBackendChatMessage(h[k - 1])
                    /\ h[k - 1].role = "assistant"
                    /\ \E n \in DOMAIN h[k - 1].tool_calls :
                          h[k - 1].tool_calls[n].id = h[k].call_id

\* C3 - exactly one terminal event: an invocation never calls onComplete and
\* onError more than once in total, and has called exactly one of them, once,
\* when it returns.
C3_ExactlyOneTerminalEvent ==
    \A i \in DOMAIN inv :
        /\ inv[i].nComplete + inv[i].nError <= 1
        /\ inv[i].pc = "returned" => inv[i].nComplete + inv[i].nError = 1

\* onComplete was called by invocation i in this step
Completes(i) == inv'[i].nComplete = inv[i].nComplete + 1

\* C4 - tool-call round trip: a connection that is open has been sent exactly
\* one functionCall chunk for every tool call an invocation requested; and
\* when the invocation started by an accepted function_result completes with
\* status completed and non-empty text, the session (if still stored) ends
\* with AssistantMessage(text) and the response's token, and the connection
\* (if open) is sent stream_end last.
C4_ToolCallRoundTrip ==
    /\ [](\A i \in DOMAIN inv :
            IsOpen(inv[i].client) =>
                \A e \in DOMAIN inv[i].emitted :
                    inv[i].emitted[e].kind = "tool-call-requested" =>
                        Cardinality({k \in DOMAIN sent[inv[i].client] :
                            sent[inv[i].client][k] =
                                StreamChunkCall(inv[i].emitted[e].functionCall, i)}) = 1)
    /\ [][\A i \in DOMAIN inv :
            ( /\ inv[i].kind = "result"
              /\ Completes(i)
              /\ inv'[i].finalStatus = "completed"
              /\ HasText(Last(inv'[i].emitted).text) )
            => LET done == Last(inv'[i].emitted)
                   sid == inv[i].sessionId
                   c == inv[i].client
               IN  /\ sid \in sessions' =>
                        /\ Last(HistoryOf(sid)') = AssistantMessage(done.text)
                        /\ TokenOf(sid)' = done.responseId
                   /\ IsOpen(c) =>
                        Last(sent'[c]) = StreamEnd(done.responseId, sid, i)]_vars

\* a chat turn requested a tool call, its function_result was accepted and the
\* second generation call completed with text
C4_Witness ==
    \E i \in DOMAIN inv, j \in DOMAIN inv :
        /\ inv[i].kind = "chat" /\ inv[j].kind = "result"
        /\ inv[j].sessionId = inv[i].sessionId
        /\ \E e \in DOMAIN inv[i].emitted :
              /\ inv[i].emitted[e].kind = "tool-call-requested"
              /\ inv[j].input[2].call_id = inv[i].emitted[e].functionCall.call_id
        /\ inv[j].pc = "returned" /\ inv[j].nComplete = 1
        /\ inv[j].finalStatus = "completed"
        /\ Last(HistoryOf(inv[j].sessionId)) = AssistantMessage(<<"a", "b">>)
        /\ TokenOf(inv[j].sessionId) = j
        /\ IsOpen(inv[j].client)
        /\ Last(sent[inv[j].client]) = StreamEnd(j, inv[j].sessionId, j)

\* the frames the callbacks send for the canonical events es, in order
RECURSIVE FramesFor(_, _, _)
FramesFor(es, sid, i) ==
    IF es = << >> THEN << >>
    ELSE LET e == Head(es)
             fs == CASE e.kind = "text-delta" -> <<StreamChunkText(e.text, i)>>
                     [] e.kind = "tool-call-requested" ->
                            <<StreamChunkCall(e.functionCall, i)>>
                     [] e.kind = "completed" -> <<StreamEnd(e.responseId, sid, i)>>
                     [] e.kind = "error" -> <<StreamError(i), ErrorFrame("AI_ERROR", i)>>
         IN  fs \o FramesFor(Tail(es), sid, i)

C6_SingleFlight ==
    \A i \in DOMAIN inv, j \in DOMAIN inv :
        ( /\ i # j
          /\ inv[i].pc = "running"
          /\ inv[j].pc = "running" )
        => inv[i].sessionId # inv[j].sessionId

\* no generation call for the session is in flight
Idle(sid) ==
    \A i \in DOMAIN inv : inv[i].sessionId = sid => inv[i].pc = "returned"

\* C7 - a matching tool result is accepted: a function_result frame for a
\* valid session with no turn in flight, whose call_id is a pending request of
\* the history that was forwarded to a connection, appends the ToolResult and
\* starts a generation call.
C7_MatchingResultAccepted ==
    [][\A c \in DOMAIN conn, sid \in SessionIdsSeen, call_id \in ForwardedCalls :
            ( /\ isValidSession(World, sid, now)
              /\ Idle(sid)
              /\ call_id \in PendingCallIds(HistoryOf(sid))
              /\ FunctionResultFrame(c, sid, call_id) )
            => /\ Len(inv') = Len(inv) + 1
               /\ Last(HistoryOf(sid)') = FunctionCallOutputMessage(call_id, ToolOutput)]_vars

\* C8 - at most one pending tool call: no stored session's history holds
\* requests for two different call ids that are both unanswered.
C8_AtMostOnePendingCall ==
    \A sid \in sessions : Cardinality(PendingCallIds(HistoryOf(sid))) <= 1

\* C9 - upstream failure: an invocation that reported an error sent the
\* connection stream_error directly followed by error AI_ERROR, sent no
\* stream_end, and left the session's continuation token as it was when the
\* invocation started.
C9_UpstreamFailure ==
    \A i \in DOMAIN inv :
        inv[i].nError > 0 =>
            LET fs == TurnFrames(i)
            IN  /\ IsOpen(inv[i].client) =>
                    \E k \in DOMAIN fs :
                        /\ fs[k] = StreamError(i)
                        /\ k < Len(fs)
                        /\ fs[k + 1] = ErrorFrame("AI_ERROR", i)
                /\ \A k \in DOMAIN fs : fs[k].type # "stream_end"
                /\ TokenOf(inv[i].sessionId) = inv[i].prevId

\* C10 - text forwarding stops at a tool call: within one turn no text chunk
\* follows a functionCall chunk.
C10_NoTextAfterToolCall ==
    \A i \in DOMAIN inv :
        LET fs == TurnFrames(i)
        IN  \A k \in DOMAIN fs, m \in DOMAIN fs :
                ( /\ k < m
                  /\ fs[k].type = "stream_chunk"
                  /\ fs[k].functionCall # NoFunctionCall )
                => ~(fs[m].type = "stream_chunk" /\ fs[m].text # << >>)

\* the call ids invocation i has handed to onFunctionCall
RequestedBy(i) ==
    {inv[i].emitted[e].functionCall.call_id : e \in
        {e \in DOMAIN inv[i].emitted : inv[i].emitted[e].kind = "tool-call-requested"}}

\* history h holds a tool-call request of invocation i
HasRequestOf(h, i) ==
    \E k \in DOMAIN h :
        /\ IsAssistantRequest(h[k])
        /\ \E n \in DOMAIN h[k].tool_calls : h[k].tool_calls[n].id \in RequestedBy(i)

\* C11 - completion with empty text after a recorded tool call: when
\* onComplete is called with empty or null text and the history already holds
\* the turn's tool-call request, the history gains no entry and the session's
\* token becomes the completed response's token.
C11_EmptyCompletionKeepsRequest ==
    [][\A i \in DOMAIN inv :
            ( /\ Completes(i)
              /\ ~HasText(Last(inv'[i].emitted).text)
              /\ inv[i].sessionId \in sessions
              /\ HasRequestOf(HistoryOf(inv[i].sessionId), i) )
            => /\ HistoryOf(inv[i].sessionId)' = HistoryOf(inv[i].sessionId)
               /\ TokenOf(inv[i].sessionId)' = Last(inv'[i].emitted).responseId]_vars

\* onComplete is called by invocation i in this step with non-empty text
CompletesWithText(i) ==
    Completes(i) /\ HasText(Last(inv'[i].emitted).text)

\* C12 - completion with text is recorded atomically: when onComplete is
\* called with non-empty text for a session id of the table, the same step
\* appends AssistantMessage(text) as the last history entry and stores the
\* response's token, and the last frame an open connection is sent is
\* stream_end; for a session id that is not in the table the session store
\* does not change; and no step changes a token without appending to that
\* session's history.
C12_AtomicCompletion ==
    [][/\ \A i \in DOMAIN inv :
            CompletesWithText(i) =>
                LET done == Last(inv'[i].emitted)
                    sid == inv[i].sessionId
                IN  IF sid \in sessions
                    THEN /\ HistoryOf(sid)' =
                               Append(HistoryOf(sid), AssistantMessage(done.text))
                         /\ TokenOf(sid)' = done.responseId
                         /\ IsOpen(inv[i].client) =>
                               Last(sent'[inv[i].client]) =
                                   StreamEnd(done.responseId, sid, i)
                    ELSE sessionObjs' = sessionObjs /\ sessions' = sessions
       /\ \A sid \in DOMAIN sessionObjs :
            TokenOf(sid)' # TokenOf(sid) =>
                Len(HistoryOf(sid)') = Len(HistoryOf(sid)) + 1]_vars

\* one turn completed with text on a stored session, another on a session id
\* that had been deleted from the table
C12_Witness ==
    \E i \in DOMAIN inv, j \in DOMAIN inv :
        /\ inv[i].nComplete = 1 /\ inv[i].pc = "returned"
        /\ HasText(Last(inv[i].emitted).text)
        /\ Last(HistoryOf(inv[i].sessionId)) =
              AssistantMessage(Last(inv[i].emitted).text)
        /\ TokenOf(inv[i].sessionId) = Last(inv[i].emitted).responseId
        /\ inv[j].nComplete = 1 /\ inv[j].pc = "returned"
        /\ HasText(Last(inv[j].emitted).text)
        /\ inv[j].sessionId \notin sessions
        /\ TokenOf(inv[j].sessionId) # Last(inv[j].emitted).responseId

\* some chat_message frame with this session id is handled on connection c
ChatMessageFrame(c, sid) ==
    \E upstream \in Streams : ChatMessage(c, sid, upstream)

\* the continuation token stored under session id sid (null for an id that
\* has never been allocated)
StoredToken(sid) ==
    IF sid \in DOMAIN sessionObjs THEN TokenOf(sid) ELSE NullId

\* C13 - outbound input selection for a chat_message: the generation call a
\* chat_message starts for the session it announces gets, when that session's
\* token is null, the instruction turn followed by the session's whole history
\* ending with the new UserMessage, and no token; otherwise it gets the new
\* UserMessage alone, with the stored token.  No history holds the
\* instruction turn.
C13_InputSelection ==
    [][\A c \in DOMAIN conn, payloadSessionId \in SessionIdsSeen \cup {NullId, UnknownSession} :
            ChatMessageFrame(c, payloadSessionId) =>
                LET g == Last(inv')
                    sid == g.sessionId
                IN  /\ IF Falsy(StoredToken(sid))
                       THEN /\ g.input =
                                  <<SYSTEM_INSTRUCTION>> \o sessionObjs'[sid].chatHistory
                            /\ Last(g.input) = UserMessage(UserText)
                            /\ g.prevId = NullId
                       ELSE /\ g.input = <<UserMessage(UserText)>>
                            /\ g.prevId = StoredToken(sid)
                    /\ \A s \in DOMAIN sessionObjs' :
                          \A k \in DOMAIN HistoryOf(s)' :
                              HistoryOf(s)'[k] # SYSTEM_INSTRUCTION]_vars

IsPrefix(s, t) == Len(s) <= Len(t) /\ SubSeq(t, 1, Len(s)) = s

\* C14 - the user message is recorded before the call: the step that handles
\* a chat_message and starts its generation call leaves the new UserMessage
\* as the last entry of the history of the session the turn announces, and no
\* later step (completion, failure or none) removes an entry from a history.
C14_UserMessageRecorded ==
    [][/\ \A c \in DOMAIN conn,
            payloadSessionId \in SessionIdsSeen \cup {NullId, UnknownSession} :
            ChatMessageFrame(c, payloadSessionId) =>
                LET sid == Last(inv').sessionId
                IN  /\ sid \in sessions'
                    /\ sessionObjs'[sid].chatHistory # << >>
                    /\ Last(sessionObjs'[sid].chatHistory) = UserMessage(UserText)
       /\ \A s \in DOMAIN sessionObjs : IsPrefix(HistoryOf(s), HistoryOf(s)')]_vars

\* C15 - tool-result continuation input: the generation call an accepted
\* function_result starts gets exactly two input items, the AssistantMessage
\* that requested the call and then the ToolResult just appended, and the
\* session's stored token, which is not null; with a null token stored the
\* frame is answered with an error frame and starts no call.
C15_ToolResultInput ==
    [][\A c \in DOMAIN conn, sid \in SessionIdsSeen, call_id \in CallIdsOffered :
            FunctionResultFrame(c, sid, call_id) =>
                /\ Len(inv') > Len(inv) =>
                      LET g == Last(inv')
                          h == sessionObjs'[sid].chatHistory
                      IN  /\ Len(inv') = Len(inv) + 1
                          /\ g.kind = "result"
                          /\ Len(g.input) = 2
                          /\ IsAssistantRequest(g.input[1])
                          /\ \E n \in DOMAIN g.input[1].tool_calls :
                                g.input[1].tool_calls[n].id = call_id
                          /\ \E k \in DOMAIN HistoryOf(sid) :
                                HistoryOf(sid)[k] = g.input[1]
                          /\ g.input[2] = FunctionCallOutputMessage(call_id, ToolOutput)
                          /\ Last(h) = g.input[2]
                          /\ Len(h) = Len(HistoryOf(sid)) + 1
                          /\ g.prevId = TokenOf(sid)
                          /\ ~Falsy(g.prevId)
                /\ ( isValidSession(World, sid, now) /\ Falsy(TokenOf(sid)) ) =>
                      /\ inv' = inv
                      /\ Len(sent'[c]) = Len(sent[c]) + 1
                      /\ Last(sent'[c]).type = "error"]_vars

\* a function_result was accepted: its generation call has the request and
\* the result as input and the token of the response that requested the call
C15_Witness ==
    \E i \in DOMAIN inv, j \in DOMAIN inv :
        /\ inv[i].kind = "chat" /\ inv[j].kind = "result"
        /\ inv[i].sessionId = inv[j].sessionId
        /\ Len(inv[j].input) = 2
        /\ IsAssistantRequest(inv[j].input[1])
        /\ isFunctionCallOutputMessage(inv[j].input[2])
        /\ inv[j].input[2].call_id \in RequestedBy(i)
        /\ inv[j].prevId = inv[i].responseId
        /\ inv[j].prevId > 0

\* C16 - tool result for an unknown or expired session: a function_result
\* frame whose session id is not in the table, or names a session last
\* accessed more than the TTL ago, is answered with error SESSION_ERROR and
\* changes nothing else: the connection stays open and keeps its associated
\* session id, the session store is unchanged and no generation call starts.
C16_SessionError ==
    [][\A c \in DOMAIN conn, sid \in SessionIdsSeen \cup {UnknownSession},
          call_id \in CallIdsOffered :
            ( /\ sid \notin sessions \/ Expired(World, sid, now)
              /\ FunctionResultFrame(c, sid, call_id) )
            => /\ sent' = [sent EXCEPT ![c] = Append(@, ErrorFrame("SESSION_ERROR", 0))]
               /\ conn' = conn
               /\ IsOpen(c)
               /\ clients' = clients
               /\ sessionObjs' = sessionObjs
               /\ sessions' = sessions
               /\ inv' = inv]_vars

\* a connection was answered SESSION_ERROR while a session of the table is
\* past its TTL
C16_Witness ==
    \E c \in DOMAIN conn :
        /\ IsOpen(c)
        /\ sent[c] # << >>
        /\ Last(sent[c]) = ErrorFrame("SESSION_ERROR", 0)
        /\ \E sid \in sessions : Expired(World, sid, now)

\* the world with connection c open
OtherwiseOpen(c) == [World EXCEPT !.conn[c].readyState = "OPEN"]

\* C17 - closing a connection does not cancel a turn: every step of a
\* generation call leaves the session store and the call as it would with the
\* call's connection open, and sends nothing when the connection is closed; a
\* function_result frame for a session whose connection was closed, sent on
\* another connection, or a chat_message frame naming that session, sent as
\* the first chat_message of another connection, changes the session store
\* and starts the generation call as the same frame would on the closed
\* connection were it still open.
C17_CloseDoesNotCancel ==
    [][/\ \A i \in DOMAIN inv :
            ( inv[i].pc = "running" /\ inv'[i] # inv[i] ) =>
                LET c == inv[i].client
                    Wopen == loopIteration(OtherwiseOpen(c), i, now)
                IN  /\ sessionObjs' = Wopen.objs
                    /\ sessions' = Wopen.keys
                    /\ inv' = Wopen.inv
                    /\ ~IsOpen(c) => sent' = sent
       /\ \A c \in DOMAIN conn, c0 \in DOMAIN conn, sid \in SessionIdsSeen :
            ( ~IsOpen(c0) /\ conn[c0].sessionId = sid /\ c # c0 ) =>
                /\ \A call_id \in CallIdsOffered :
                      FunctionResultFrame(c, sid, call_id) =>
                          LET upstream == IF Len(inv') > Len(inv)
                                          THEN Last(inv').upstream ELSE << >>
                              W0 == onFunctionResult(OtherwiseOpen(c0), c0, sid, call_id,
                                                     ToolOutput, upstream, now)
                          IN  /\ sessionObjs' = W0.objs
                              /\ sessions' = W0.keys
                              /\ Len(inv') = Len(W0.inv)
                              /\ Len(inv') > Len(inv) =>
                                    [Last(inv') EXCEPT !.client = c0] = Last(W0.inv)
                /\ ( Falsy(conn[c].sessionId) /\ ChatMessageFrame(c, sid) ) =>
                      LET upstream == Last(inv').upstream
                          W0 == onChatMessage(OtherwiseOpen(c0), c0, sid, UserText,
                                              upstream, now)
                      IN  /\ sessionObjs' = W0.objs
                          /\ sessions' = W0.keys
                          /\ [Last(inv') EXCEPT !.client = c0] = Last(W0.inv)]_vars

\* a connection was closed while its turn was in flight; the turn completed
\* and stored its token; a later connection submitted the pending
\* function_result, which was accepted
C17_Witness ==
    \E i \in DOMAIN inv, j \in DOMAIN inv :
        /\ inv[i].kind = "chat" /\ inv[j].kind = "result"
        /\ inv[i].sessionId = inv[j].sessionId
        /\ inv[i].client # inv[j].client
        /\ ~IsOpen(inv[i].client)
        /\ inv[i].nComplete = 1
        /\ Len(TurnFrames(i)) = 2
        /\ TurnFrames(i)[2].type = "stream_chunk"
        /\ inv[j].input[2].call_id \in RequestedBy(i)
        /\ inv[j].prevId = inv[i].responseId
        /\ inv[j].prevId > 0

\* some frame with this content arrives on connection c
RawMessageFrame(c, rawMessage) ==
    \E upstream \in StreamsRaw : MessageArrives(c, rawMessage, upstream)

\* the upstream of invocation i fails in this step
UpstreamFails(i) ==
    /\ inv[i].pc = "running"
    /\ inv[i].stream # << >>
    /\ Head(inv[i].stream).type \in {"throw", "reject"}
    /\ inv'[i] # inv[i]

SizeError == errorPayload("BAD_REQUEST", <<"Message size exceeds limit.">>)

\* C19 - oversized frame: a frame of more than 10,000 bytes is answered with
\* a BAD_REQUEST error frame and is not parsed: the connection stays open, no
\* session is created or modified and no generation call is started; a valid
\* chat_message that follows on the same connection is handled normally
\* (session_update, stream_start, generation call).
C19_OversizedFrame ==
    [][\A c \in DOMAIN conn, rawMessage \in RawMessages :
          /\ ( rawMessage.bytes > MAX_MESSAGE_LENGTH /\ RawMessageFrame(c, rawMessage) )
             => /\ Len(sent'[c]) = Len(sent[c]) + 1
                /\ Last(sent'[c]).type = "error"
                /\ Last(sent'[c]).code = "BAD_REQUEST"
                /\ conn' = conn
                /\ clients' = clients
                /\ sessionObjs' = sessionObjs
                /\ sessions' = sessions
                /\ inv' = inv
          /\ ( /\ sent[c] # << >>
               /\ Last(sent[c]) = SizeError
               /\ rawMessage.bytes <= MAX_MESSAGE_LENGTH
               /\ rawMessage.json
               /\ rawMessage.message.type = "chat_message"
               /\ rawMessage.message.message # Undefined
               /\ RawMessageFrame(c, rawMessage) )
             => /\ Len(inv') = Len(inv) + 1
                /\ Last(inv').client = c
                /\ Len(sent'[c]) = Len(sent[c]) + 2
                /\ sent'[c][Len(sent[c]) + 1].type = "session_update"
                /\ sent'[c][Len(sent[c]) + 2].type = "stream_start"]_vars

\* a frame that is not JSON, or whose value is neither a chat_message with a
\* message string nor a function_result with a session id, a call id and an
\* output
Malformed(rawMessage) ==
    \/ ~rawMessage.json
    \/ LET message == rawMessage.message
       IN  /\ ~( message.type = "chat_message" /\ message.message # Undefined )
           /\ ~( /\ message.type = "function_result"
                 /\ message.sessionId # NullId
                 /\ message.call_id # Undefined
                 /\ message.output # Undefined )

\* C20 - malformed or unrecognised frames: such a frame is answered with one
\* BAD_REQUEST error frame; the connection stays open, neither handler runs
\* (no generation call starts, no other frame is sent) and no session is
\* created or modified.
C20_MalformedFrame ==
    [][\A c \in DOMAIN conn, rawMessage \in RawMessages :
          ( Malformed(rawMessage) /\ RawMessageFrame(c, rawMessage) )
          => /\ Len(sent'[c]) = Len(sent[c]) + 1
             /\ SubSeq(sent'[c], 1, Len(sent[c])) = sent[c]
             /\ Last(sent'[c]).type = "error"
             /\ Last(sent'[c]).code = "BAD_REQUEST"
             /\ \A c2 \in DOMAIN conn : c2 # c => sent'[c2] = sent[c2]
             /\ conn' = conn
             /\ IsOpen(c)
             /\ clients' = clients
             /\ sessionObjs' = sessionObjs
             /\ sessions' = sessions
             /\ inv' = inv]_vars

\* a connection that sent a frame that is not JSON and a JSON frame of no
\* known shape is open, was answered twice, and no session exists
C20_Witness ==
    \E c \in clients :
        /\ IsOpen(c)
        /\ frames = 2
        /\ sessions = {}
        /\ inv = << >>
        /\ \E k \in DOMAIN sent[c] :
              sent[c][k] = errorPayload("BAD_REQUEST", <<"Invalid JSON format.">>)
        /\ Last(sent[c]) = errorPayload("BAD_REQUEST",
                                        <<"Unknown message type or invalid format.">>)

\* C21 - heartbeat reclaim: an accepted connection that has returned no pong
\* is terminated and removed from the active connections at the latest by the
\* second heartbeat tick after it was accepted.
C21_HeartbeatReclaim ==
    \A c \in DOMAIN conn :
        ( sent[c] # << >> /\ conn[c].pongs = 0 /\ conn[c].probes >= 2 )
        => ( conn[c].readyState # "OPEN" /\ c \notin clients )

\* an accepted connection with a turn in flight never answered a ping and was
\* terminated by the second heartbeat tick
C21_Witness ==
    \E c \in DOMAIN conn :
        /\ sent[c] # << >>
        /\ sent[c][1].type = "connection_established"
        /\ conn[c].pongs = 0
        /\ conn[c].probes = 2
        /\ conn[c].readyState = "CLOSED"
        /\ c \notin clients
        /\ \E i \in DOMAIN inv : inv[i].client = c

\* the connection was terminated on accept: it is not an active connection,
\* was sent nothing, and nothing it sent was handled
TerminatedOnAccept(c) ==
    /\ conn[c].readyState = "CLOSED"
    /\ c \notin clients
    /\ sent[c] = << >>
    /\ conn[c].sessionId = NullId
    /\ \A i \in DOMAIN inv : inv[i].client # c

\* C22 - origin validation on accept: a connection that declares an origin
\* outside the allow-list is terminated on accept (never an active connection,
\* never sent connection_established, none of its frames handled); a
\* connection that declares no origin is accepted only in development mode.
C22_OriginValidation ==
    \A c \in DOMAIN conn :
        /\ ( conn[c].origin # NoOrigin /\ conn[c].origin \notin allowedOrigins )
           => TerminatedOnAccept(c)
        /\ ( conn[c].origin = NoOrigin /\ nodeEnv # "development" )
           => TerminatedOnAccept(c)
        /\ ( conn[c].origin = NoOrigin /\ nodeEnv = "development" )
           => ( sent[c] # << >> /\ sent[c][1] = ConnectionEstablished(c) )

\* in development mode a connection from an origin outside the allow-list was
\* terminated on accept
C22_Witness ==
    \E c \in DOMAIN conn :
        /\ conn[c].origin = "https://evil.example"
        /\ nodeEnv = "development"
        /\ TerminatedOnAccept(c)

\* the session data without its lastAccessed stamp
Contents(sessionData) ==
    [previousResponseId |-> sessionData.previousResponseId,
     chatHistory |-> sessionData.chatHistory]

\* C23 - getOrCreate is idempotent within the TTL: two calls in a row with the
\* id of a stored, unexpired session both return that id with isNew false and
\* the session's contents as they were; the table keeps its keys and no
\* object is allocated; only the session's lastAccessed changes.
C23_GetOrCreateIdempotent ==
    \A sid \in sessions, t2 \in now .. now + SESSION_TTL :
        now - sessionObjs[sid].lastAccessed <= SESSION_TTL =>
            LET first == getOrCreateSession(World, sid, now)
                second == getOrCreateSession(first.W, sid, t2)
            IN  /\ first.sessionId = sid /\ second.sessionId = sid
                /\ ~first.isNewSession /\ ~second.isNewSession
                /\ first.W.keys = sessions /\ second.W.keys = sessions
                /\ Len(first.W.objs) = Len(sessionObjs)
                /\ Len(second.W.objs) = Len(sessionObjs)
                /\ Contents(first.W.objs[sid]) = Contents(sessionObjs[sid])
                /\ Contents(second.W.objs[sid]) = Contents(sessionObjs[sid])
                /\ second.W.objs[sid].lastAccessed = t2
                /\ \A other \in DOMAIN sessionObjs :
                      other # sid => second.W.objs[other] = sessionObjs[other]
                /\ [second.W EXCEPT !.objs = sessionObjs] = World

\* a stored session with a history and a token, last touched some time ago
\* but within the TTL
C23_Witness ==
    \E sid \in sessions :
        /\ now - sessionObjs[sid].lastAccessed = SESSION_TTL
        /\ HistoryOf(sid) # << >>
        /\ TokenOf(sid) # NullId

\* C24 - expiry: for a session last touched more than the TTL ago, swept or
\* not, isValid answers false, and getOrCreate on its id leaves no entry under
\* that id and returns a fresh id, different from the one asked for, with
\* isNew true, an empty history and a null token.
C24_Expiry ==
    \A sid \in SessionIdsSeen :
        now - sessionObjs[sid].lastAccessed > SESSION_TTL =>
            LET got == getOrCreateSession(World, sid, now)
            IN  /\ ~isValidSession(World, sid, now)
                /\ got.isNewSession
                /\ got.sessionId # sid
                /\ got.sessionId \notin SessionIdsSeen
                /\ got.W.keys = (sessions \ {sid}) \cup {got.sessionId}
                /\ got.W.objs[got.sessionId].chatHistory = << >>
                /\ got.W.objs[got.sessionId].previousResponseId = NullId
                /\ got.W.objs[got.sessionId].lastAccessed = now

\* a session with a history and a token has expired and the sweep has not
\* removed it
C24_Witness ==
    \E sid \in sessions :
        /\ now - sessionObjs[sid].lastAccessed > SESSION_TTL
        /\ HistoryOf(sid) # << >>
        /\ TokenOf(sid) # NullId

\* C25 - isValid is read-only: whatever the id and the state of the store, a
\* call of isValid leaves the session table as it was: no lastAccessed is
\* refreshed, no expired session is deleted, no session is created.
C25_IsValidReadOnly ==
    /\ [](\A sid \in SessionIdsSeen \cup {NullId, UnknownSession} :
            isValidSessionEffect(World, sid, now) = World)
    /\ [][\A c \in DOMAIN conn, sid \in SessionIdsSeen \cup {UnknownSession},
            call_id \in CallIdsOffered :
              ( ~isValidSession(World, sid, now) /\ FunctionResultFrame(c, sid, call_id) )
              => ( sessionObjs' = sessionObjs /\ sessions' = sessions )]_vars

\* a function_result naming a stored session that has expired was answered
\* SESSION_ERROR and the session is still stored
C25_Witness ==
    \E c \in DOMAIN conn, sid \in sessions :
        /\ now - sessionObjs[sid].lastAccessed > SESSION_TTL
        /\ HistoryOf(sid) # << >>
        /\ sent[c] # << >>
        /\ Last(sent[c]) = ErrorFrame("SESSION_ERROR", 0)
        /\ frames = 2

\* the history entries tried
TurnsAppended == {UserMessage(UserText), FunctionCallOutputMessage(WrongCallId, ToolOutput)}

\* C26 - append: on an id in the table it adds the entry at the end of the
\* history and sets lastAccessed to now, leaving the token and everything
\* else as it was; on an id that is not in the table it changes nothing.
C26_Append ==
    \A sid \in SessionIdsSeen \cup {NullId, UnknownSession}, turn \in TurnsAppended :
        LET W1 == addMessageToHistory(World, sid, turn, now)
        IN  IF sid \in sessions
            THEN /\ W1.objs[sid].chatHistory = Append(HistoryOf(sid), turn)
                 /\ W1.objs[sid].lastAccessed = now
                 /\ W1.objs[sid].previousResponseId = TokenOf(sid)
                 /\ [W1 EXCEPT !.objs[sid] = sessionObjs[sid]] = World
            ELSE W1 = World

\* a handler appended a user message to a session that holds a token, some
\* time after the session was created
C26_Witness ==
    /\ \E sid \in sessions :
          /\ TokenOf(sid) # NullId
          /\ Len(HistoryOf(sid)) >= 3
          /\ Last(HistoryOf(sid)) = UserMessage(UserText)
          /\ sessionObjs[sid].lastAccessed = now
          /\ now > 0
    /\ frames = 2

\* C27 - TTL sweep safety: a run of the sweep removes the sessions with
\* lastAccessed + TTL < now and no others, and changes no session; every
\* change to a session sets its lastAccessed to now; so, however sweeps and
\* frame handling interleave, a session touched within the last TTL is in the
\* table.
C27_SweepSafety ==
    /\ [](\A sid \in SessionIdsSeen :
            now - sessionObjs[sid].lastAccessed <= SESSION_TTL => sid \in sessions)
    /\ [][/\ SessionCleanup =>
                /\ sessions' = {sid \in sessions :
                                  ~(sessionObjs[sid].lastAccessed + SESSION_TTL < now)}
                /\ sessionObjs' = sessionObjs
          /\ \A sid \in SessionIdsSeen :
                sessionObjs'[sid] # sessionObjs[sid] =>
                    sessionObjs'[sid].lastAccessed = now]_vars

\* the sweep removed the only session there is, which had expired while its
\* turn was in flight
C27_Witness ==
    \E sid \in SessionIdsSeen, i \in DOMAIN inv :
        /\ sid \notin sessions
        /\ Len(sessionObjs) = 1
        /\ now - sessionObjs[sid].lastAccessed > SESSION_TTL
        /\ inv[i].sessionId = sid
        /\ inv[i].pc = "running"

\* C28 - no exception escapes the generation call: when the upstream request
\* is rejected or the stream iterator throws, at whatever point of the stream,
\* the call hands one error to onError, as its last event, and returns; the
\* promise of a generation call is never rejected.
C28_NoEscapingException ==
    /\ [](\A i \in DOMAIN inv : inv[i].pc \in {"running", "returned"})
    /\ [][\A i \in DOMAIN inv :
            UpstreamFails(i) =>
                /\ inv'[i].pc = "returned"
                /\ inv'[i].nError = inv[i].nError + 1
                /\ inv'[i].emitted = Append(inv[i].emitted, Emitted("error"))]_vars

\* the stream threw after text had been handed on, and the call returned with
\* an error as its last event
C28_Witness ==
    \E i \in DOMAIN inv :
        /\ inv[i].stream = << >>
        /\ Len(inv[i].upstream) = MaxStreamLen
        /\ Last(inv[i].upstream) = ThrowEvent
        /\ inv[i].pc = "returned"
        /\ Len(inv[i].emitted) >= 2
        /\ inv[i].emitted[1].kind = "text-delta"
        /\ Last(inv[i].emitted).kind = "error"

\* the upstream events invocation i has taken so far
Consumed(i) ==
    SubSeq(inv[i].upstream, 1, Len(inv[i].upstream) - Len(inv[i].stream))

\* the positions in q of the events that announce a function-call item
Announcements(q) ==
    {k \in DOMAIN q : q[k].type = "response.output_item.added"}

\* the positions in q of the events that signal complete arguments
Completions(q) ==
    {k \in DOMAIN q : /\ q[k].type = "response.function_call_arguments.done"
                      /\ q[k].text # NullText}

ToolCallEvents(i) ==
    {k \in DOMAIN inv[i].emitted : inv[i].emitted[k].kind = "tool-call-requested"}

\* C29 - tool-call event emission: a tool-call-requested event is emitted only
\* on an upstream event that signals complete arguments, when a function-call
\* item was announced before it and no arguments were completed since the
\* last announcement; it carries the call id and name of the item last
\* announced and the arguments string of the signal; there are never more
\* such events than completion signals or than announced items, so an item
\* whose arguments never complete produces none.
C29_ToolCallEmission ==
    /\ [](\A i \in DOMAIN inv :
            /\ Cardinality(ToolCallEvents(i)) <= Cardinality(Announcements(Consumed(i)))
            /\ Cardinality(ToolCallEvents(i)) <= Cardinality(Completions(Consumed(i))))
    /\ [][\A i \in DOMAIN inv :
            ( /\ Len(inv'[i].emitted) > Len(inv[i].emitted)
              /\ Last(inv'[i].emitted).kind = "tool-call-requested" )
            => LET q == Consumed(i)
                   event == Head(inv[i].stream)
               IN  /\ inv[i].stream # << >>
                   /\ event.type = "response.function_call_arguments.done"
                   /\ event.text # NullText
                   /\ Len(inv'[i].emitted) = Len(inv[i].emitted) + 1
                   /\ \E k \in Announcements(q) :
                        /\ \A m \in Announcements(q) \cup Completions(q) : m <= k
                        /\ Last(inv'[i].emitted).functionCall =
                              [call_id |-> <<i, q[k].item>>, name |-> "detectAllNodes",
                               arguments |-> event.text]]_vars

\* the upstream announced one item and signalled complete arguments twice:
\* one tool-call-requested event was emitted
C29_Witness ==
    \E i \in DOMAIN inv :
        /\ inv[i].stream = << >>
        /\ Cardinality(Announcements(inv[i].upstream)) = 1
        /\ Cardinality(Completions(inv[i].upstream)) = 2
        /\ inv[i].upstream[1].type = "response.output_item.added"
        /\ Cardinality(ToolCallEvents(i)) = 1

\* the concatenation, in order, of the text fragments among the events e
RECURSIVE Fragments(_)
Fragments(e) ==
    IF e = << >> THEN << >>
    ELSE IF Head(e).kind = "text-delta"
    THEN Head(e).text \o Fragments(Tail(e))
    ELSE Fragments(Tail(e))

\* C30 - final text of a completed event: once the invocation has returned,
\* the finalText of each completed event it handed to onComplete, the one
\* synthesized at the end of the stream included, is the concatenation in
\* order of all the fragments it handed to onChunk, and null exactly when it
\* handed none.
C30_FinalText ==
    \A i \in DOMAIN inv :
        inv[i].pc = "returned" =>
            \A k \in DOMAIN inv[i].emitted :
                inv[i].emitted[k].kind = "completed" =>
                    LET all == Fragments(inv[i].emitted)
                    IN  /\ inv[i].emitted[k].text = NullText <=> all = << >>
                        /\ inv[i].emitted[k].text # NullText =>
                              inv[i].emitted[k].text = all

\* C31 - the heartbeat does not kill live peers: at a heartbeat tick, an open
\* active connection that has answered every ping sent to it so far stays
\* open and active.
C31_HeartbeatSparesLivePeers ==
    [][\A c \in DOMAIN conn :
          ( /\ IsOpen(c)
            /\ c \in clients
            /\ conn[c].pongs = conn[c].probes
            /\ conn'[c].probes > conn[c].probes )
          => ( conn'[c].readyState = "OPEN" /\ c \in clients' )]_vars

\* a connection lived through every heartbeat tick, answering each ping, and
\* is open and active
C31_Witness ==
    \E c \in clients :
        /\ IsOpen(c)
        /\ conn[c].probes = MaxHeartbeats
        /\ conn[c].pongs = MaxHeartbeats

\* C32 - getOrCreate postcondition: whatever id is asked for, the id returned
\* is a key of the table after the call and names the session data returned;
\* isNew is true exactly when the call put a new entry into the table; an id
\* asked for that is not in the table is never the id of the new session,
\* which is one the store has not generated before.
C32_GetOrCreatePostcondition ==
    \A requested \in SessionIdsSeen \cup {NullId, EmptyId, UnknownSession} :
        LET got == getOrCreateSession(World, requested, now)
        IN  /\ got.sessionId \in got.W.keys
            /\ got.sessionId \in DOMAIN got.W.objs
            /\ got.isNewSession <=> got.sessionId \notin sessions
            /\ got.isNewSession <=> Len(got.W.objs) = Len(sessionObjs) + 1
            /\ got.isNewSession => got.W.objs[got.sessionId] = NewSessionData(now)
            /\ requested \notin sessions =>
                  /\ got.sessionId # requested
                  /\ got.sessionId \notin SessionIdsSeen
                  /\ got.isNewSession

\* getOrCreate was asked for an expired id: that id is no longer in the
\* table, and a session generated later is
C32_Witness ==
    \E old \in SessionIdsSeen, new \in sessions :
        /\ old \notin sessions
        /\ new > old
        /\ HistoryOf(old) # << >>

\* the stream_end and stream_error frames sent for invocation i
TerminalFrames(i) ==
    LET IsTerminal(f) == f.type \in {"stream_end", "stream_error"}
    IN  SelectSeq(TurnFrames(i), IsTerminal)

\* C33 - one terminal frame per stream_start: an open connection that was
\* sent stream_start for an invocation is sent at most one terminal frame for
\* it, stream_end or stream_error, and exactly one once the invocation has
\* returned; and the invocation applies the final update of the session at
\* most once.
C33_OneTerminalFrame ==
    \A i \in DOMAIN inv :
        ( /\ IsOpen(inv[i].client)
          /\ TurnFrames(i) # << >>
          /\ TurnFrames(i)[1].type = "stream_start" )
        => /\ Len(TerminalFrames(i)) <= 1
           /\ inv[i].pc = "returned" => Len(TerminalFrames(i)) = 1
           /\ inv[i].nComplete <= 1

\* C34 - a chat turn works on the session it announces: the step that handles
\* a chat_message reads token and history from the session whose id it sends
\* in stream_start; that session is in the table, its history ends with the
\* new UserMessage, the UserMessage is part of the generation input, and no
\* session other than the announced one is created.
C34_TurnWorksOnAnnouncedSession ==
    [][\A c \in DOMAIN conn, payloadSessionId \in SessionIdsSeen \cup {NullId, UnknownSession} :
            ChatMessageFrame(c, payloadSessionId) =>
                LET g == Last(inv')
                    announced == Last(sent'[c]).id
                IN  /\ Last(sent'[c]).type = "stream_start"
                    /\ g.sessionId = announced
                    /\ g.dataId = announced
                    /\ announced \in sessions'
                    /\ sessionObjs'[announced].chatHistory # << >>
                    /\ Last(sessionObjs'[announced].chatHistory) = UserMessage(UserText)
                    /\ g.input # << >>
                    /\ Last(g.input) = UserMessage(UserText)
                    /\ sessions' \ sessions \subseteq {announced}
                    /\ DOMAIN sessionObjs' \ DOMAIN sessionObjs \subseteq {announced}]_vars

\* C35 - the tool result uses the right continuation token: the generation
\* call that an accepted function_result for a call id starts is given the
\* token of the response that requested that call id, also when the frame is
\* handled before that response's completed event.
C35_RightContinuationToken ==
    [][\A c \in DOMAIN conn, sid \in SessionIdsSeen, call_id \in ForwardedCalls :
            ( FunctionResultFrame(c, sid, call_id) /\ Len(inv') > Len(inv) )
            => /\ inv[call_id[1]].responseId # EmptyId
               /\ Last(inv').prevId = inv[call_id[1]].responseId]_vars

\* a function_result frame of this session and call id is handled, whatever
\* the upstream response of the call it may start
ResolveFrame(c, sid, call_id) ==
    \E upstream \in StreamsResolve : FunctionResult(c, sid, call_id, upstream)

\* a function_result with this call id has been accepted for the session: a
\* generation call was started with it
Resolved(sid, call_id) ==
    \E i \in DOMAIN inv :
        /\ inv[i].kind = "result"
        /\ inv[i].sessionId = sid
        /\ \E k \in DOMAIN inv[i].input :
              /\ isFunctionCallOutputMessage(inv[i].input[k])
              /\ inv[i].input[k].call_id = call_id

\* C36 - a tool call is resolved at most once: once a function_result with a
\* call id has been accepted for a session, every later function_result frame
\* with the same call id for that session is answered with an error frame and
\* starts no generation call, whatever the intervening completions were.
C36_ResolvedAtMostOnce ==
    [][\A c \in DOMAIN conn, sid \in SessionIdsSeen, call_id \in ForwardedCalls :
            ( Resolved(sid, call_id) /\ ResolveFrame(c, sid, call_id) )
            => /\ inv' = inv
               /\ Len(sent'[c]) = Len(sent[c]) + 1
               /\ Last(sent'[c]).type = "error"]_vars

\* the same, for a second frame that arrives while the call started by the
\* first is still running or after it completed with text
C36_ResolvedAtMostOnceUnlessEmpty ==
    [][\A c \in DOMAIN conn, sid \in SessionIdsSeen, call_id \in ForwardedCalls :
            ( /\ Resolved(sid, call_id)
              /\ ResolveFrame(c, sid, call_id)
              /\ \A i \in DOMAIN inv :
                    inv[i].kind = "result" => inv[i].upstream # EmptyTextStream )
            => /\ inv' = inv
               /\ Len(sent'[c]) = Len(sent[c]) + 1
               /\ Last(sent'[c]).type = "error"]_vars

====
